---------------------------- MODULE Spec2Model ----------------------------
(***************************************************************************)
(* Model of trailer_opt.py: read_driver_schedule derives the legs of the   *)
(* driver schedule, build_network_graph builds the time-expanded trailer   *)
(* network with networkx, solve_min_flow_prob states the minimum-flow      *)
(* linear programme over it and hands it to the LP solver.                 *)
(*                                                                         *)
(* Times are whole hours.  The schedule is the DataFrame as sort_values    *)
(* leaves it (line 22): rows in (Route, Sequence) order, ties in any order.*)
(* Routes and sequences are numbered from 1 and zips from the first row's, *)
(* the code only comparing them; every schedule has at least one leg.     *)
(***************************************************************************)
EXTENDS Integers, Sequences, FiniteSets, TLC

\* ---------------------------------------------------------------- bounds
\* Rows (stops) of the schedule file.
MaxStops == 4

\* Values the Zip column takes.
Zips == {1, 2}
\* Arrival hours: 14 hours is preload_time + drop_time, the gap at which a
\* release time equals a ready time; 15 hours is the first gap that lets a
\* trailer be reused.
Times == {0, 14, 15}
\* How a row's (Route, Sequence) follows that of the row above it in the
\* sorted table: the same pair again, the next stop of the route, or the
\* first stop of the next route.
Steps == {"same", "next", "route"}

\* ------------------------------------------------------ program constants
preload_time == 6
drop_time == 8

\* What shift(-1) puts in the last row (NaT / NaN).
NaN == -1

VARIABLES
    pc,         \* "start", "built", "KeyError", "solved", "nosolution"
    bal_pool,   \* the flag solve_min_flow_prob is called with
    sched,      \* the sorted stop table of read_driver_schedule (line 26)
    drv_sched,  \* the legs read_driver_schedule returns
    G,          \* the networkx DiGraph: [node: node -> attributes, edge: edge -> tag]
    sol,        \* the flow map solve_min_flow_prob returns
    obj         \* v.solution_value

vars == <<pc, bal_pool, sched, drv_sched, G, sol, obj>>

\* ------------------------------------------------------------- the input
\* The (Route, Sequence) of row i: routes and sequences are numbered from 1
\* in the order sort_values leaves them.
RECURSIVE KeyAt(_, _)
KeyAt(steps, i) ==
    IF i = 1 THEN <<1, 1>>
    ELSE LET p == KeyAt(steps, i - 1)
         IN  CASE steps[i] = "same"  -> p
               [] steps[i] = "next"  -> <<p[1], p[2] + 1>>
               [] steps[i] = "route" -> <<p[1] + 1, 1>>

SortedTable(n, steps, zips, arvs) ==
    [i \in 1..n |-> [Route    |-> KeyAt(steps, i)[1],
                     Sequence |-> KeyAt(steps, i)[2],
                     Zip      |-> zips[i],
                     ArvDTTM  |-> arvs[i]]]

\* ------------------------------------------------ read_driver_schedule
\* groupby(['Route'])['Sequence'].transform(max)
RouteMaxSeq(df, route) ==
    LET S == {df[i].Sequence : i \in {j \in 1..Len(df) : df[j].Route = route}}
    IN  CHOOSE m \in S : \A x \in S : x <= m

\* The row with NxtArvDTTM and DestZip shifted in from the row below.
Shifted(df, i) ==
    [Route      |-> df[i].Route,
     Sequence   |-> df[i].Sequence,
     Zip        |-> df[i].Zip,
     ArvDTTM    |-> df[i].ArvDTTM,
     NxtArvDTTM |-> IF i < Len(df) THEN df[i + 1].ArvDTTM ELSE NaN,
     DestZip    |-> IF i < Len(df) THEN df[i + 1].Zip ELSE NaN]

RECURSIVE DropLast(_, _)
DropLast(df, i) ==
    IF i > Len(df) THEN << >>
    ELSE IF RouteMaxSeq(df, df[i].Route) # df[i].Sequence
         THEN <<Shifted(df, i)>> \o DropLast(df, i + 1)
         ELSE DropLast(df, i + 1)

read_driver_schedule(df) == DropLast(df, 1)

\* ------------------------------------------------------------- the graph
Src == [k |-> "s", a |-> 0, b |-> 0]
Tgt == [k |-> "t", a |-> 0, b |-> 0]
LocNode(loc, typ) == [k |-> typ, a |-> loc, b |-> 0]
TrlNode(route, seq, typ) == [k |-> typ, a |-> route, b |-> seq]

\* A node's attribute dictionary; "missing" stands for an absent key.
NoAttr == [tag |-> "missing", loc |-> NaN, time |-> NaN]
Attr(tag, loc, time) == [tag |-> tag, loc |-> loc, time |-> time]

EmptyGraph == [node |-> << >>, edge |-> << >>]

\* G.add_node(n, **attr): a node already there takes the new attributes.
add_node(g, n, attr) ==
    [node |-> (n :> attr) @@ g.node, edge |-> g.edge]

\* G.add_edge(u, v, tag=tag): adds u and v, without attributes, when absent.
add_edge(g, u, v, tag) ==
    [node |-> g.node @@ (u :> NoAttr) @@ (v :> NoAttr),
     edge |-> (<<u, v>> :> tag) @@ g.edge]

\* drv_sched.Zip.unique()
locations(legs) == {legs[i].Zip : i \in 1..Len(legs)}

RECURSIVE AddLocationNodes(_, _)
AddLocationNodes(g, locs) ==
    IF locs = {} THEN g
    ELSE LET loc == CHOOSE l \in locs : TRUE
         IN  AddLocationNodes(
                 add_node(add_node(g, LocNode(loc, "out"), Attr("location", NaN, NaN)),
                          LocNode(loc, "in"), Attr("location", NaN, NaN)),
                 locs \ {loc})

RECURSIVE AddStartNodes(_, _, _)
AddStartNodes(g, legs, i) ==
    IF i > Len(legs) THEN g
    ELSE AddStartNodes(
             add_node(g, TrlNode(legs[i].Route, legs[i].Sequence, "start"),
                      Attr("trailer_start", legs[i].Zip, legs[i].ArvDTTM - preload_time)),
             legs, i + 1)

RECURSIVE AddEndNodes(_, _, _)
AddEndNodes(g, legs, i) ==
    IF i > Len(legs) THEN g
    ELSE AddEndNodes(
             add_node(g, TrlNode(legs[i].Route, legs[i].Sequence, "end"),
                      Attr("trailer_end", legs[i].DestZip, legs[i].NxtArvDTTM + drop_time)),
             legs, i + 1)

RECURSIVE AddPoolEdges(_, _)
AddPoolEdges(g, locs) ==
    IF locs = {} THEN g
    ELSE LET loc == CHOOSE l \in locs : TRUE
         IN  AddPoolEdges(
                 add_edge(add_edge(g, Src, LocNode(loc, "out"), "src_pool"),
                          LocNode(loc, "in"), Tgt, "sink_pool"),
                 locs \ {loc})

RECURSIVE AddSupplyEdges(_, _, _)
AddSupplyEdges(g, legs, i) ==
    IF i > Len(legs) THEN g
    ELSE AddSupplyEdges(
             add_edge(g, LocNode(legs[i].Zip, "out"),
                      TrlNode(legs[i].Route, legs[i].Sequence, "start"), "trl_supp"),
             legs, i + 1)

RECURSIVE AddReturnEdges(_, _, _)
AddReturnEdges(g, legs, i) ==
    IF i > Len(legs) THEN g
    ELSE AddReturnEdges(
             add_edge(g, TrlNode(legs[i].Route, legs[i].Sequence, "end"),
                      LocNode(legs[i].DestZip, "in"), "trl_rtrn"),
             legs, i + 1)

\* Lines 46-79: the graph before the tag lookups of line 82.
GraphToReturnEdges(legs) ==
    LET g0 == add_node(add_node(EmptyGraph, Src, Attr("source", NaN, NaN)),
                       Tgt, Attr("target", NaN, NaN))
        g1 == AddLocationNodes(g0, locations(legs))
        g2 == AddStartNodes(g1, legs, 1)
        g3 == AddEndNodes(g2, legs, 1)
        g4 == AddPoolEdges(g3, locations(legs))
        g5 == AddSupplyEdges(g4, legs, 1)
    IN  AddReturnEdges(g5, legs, 1)

\* y['tag'] of line 82 raises KeyError on a node that has no tag.
TagKeyError(g) == \E n \in DOMAIN g.node : g.node[n].tag = "missing"

trailer_start(g) == {n \in DOMAIN g.node : g.node[n].tag = "trailer_start"}
trailer_end(g) == {n \in DOMAIN g.node : g.node[n].tag = "trailer_end"}

\* Lines 84-86: i[:2] == j[:2]
UtilizationPairs(g) ==
    {<<i, j>> \in trailer_start(g) \X trailer_end(g) : i.a = j.a /\ i.b = j.b}

\* Lines 90-93
SameTrailerPairs(g) ==
    {<<i, j>> \in trailer_end(g) \X trailer_start(g) :
        /\ g.node[i].loc = g.node[j].loc
        /\ g.node[i].time < g.node[j].time}

\* add_edges_from(pairs, tag=tag); every endpoint is already a node.
add_edges_from(g, pairs, tag) ==
    [node |-> g.node, edge |-> [e \in pairs |-> tag] @@ g.edge]

\* Lines 81-95, from the graph g6 of lines 46-79.
AddTrailerEdges(g6) ==
    LET g7 == add_edges_from(g6, UtilizationPairs(g6), "trailer_utilization")
    IN  add_edges_from(g7, SameTrailerPairs(g7), "same_trailer")

build_network_graph(legs) == AddTrailerEdges(GraphToReturnEdges(legs))


\* --------------------------------------- the linear programme (lines 103-132)
Nodes(g) == DOMAIN g.node
Edges(g) == DOMAIN g.edge

\* G.neighbors(i): the edges leaving i.
OutEdges(g, i) == {e \in Edges(g) : e[1] = i}
\* (m, n) for m, n in G.edges() if n == i
InEdges(g, i) == {e \in Edges(g) : e[2] = i}

RECURSIVE sum_vars(_, _)
sum_vars(f, E) ==
    IF E = {} THEN 0
    ELSE LET e == CHOOSE x \in E : TRUE
         IN  f[e] + sum_vars(f, E \ {e})

\* Lines 105-109: lb=0 and no upper bound on the five free tags, lb=ub=1 on
\* every other edge.
FreeTags == {"src_pool", "sink_pool", "trl_supp", "trl_rtrn", "same_trailer"}

\* The bug of giving the utilization edges the free edges' bounds.
VarBounds_AllFree(g, f) ==
    \A e \in Edges(g) : f[e] >= 0

VarBounds(g, f) ==
    \A e \in Edges(g) :
        IF g.edge[e] \in FreeTags THEN f[e] >= 0 ELSE f[e] = 1

\* The bug of balancing a pool's Source edge against itself.
PoolBalance_SameEdge(g, f, i) ==
    f[<<Src, i>>] - f[<<Src, i>>] = 0

\* Lines 127-130: the pool balance constraint of a LocationOut node.
PoolBalance(g, f, i) ==
    f[<<Src, i>>] - f[<<LocNode(i.a, "in"), Tgt>>] = 0

\* The bug of stating no conservation for the TrailerStart nodes.
NodeConstraints_SkipStart(g, bal, f, v, i) ==
    IF i = Src THEN sum_vars(f, OutEdges(g, i)) = v
    ELSE IF i = Tgt THEN sum_vars(f, InEdges(g, i)) = v
    ELSE /\ g.node[i].tag # "trailer_start"
            => sum_vars(f, OutEdges(g, i)) - sum_vars(f, InEdges(g, i)) = 0
         /\ (bal /\ g.node[i].tag = "location" /\ i.k = "out")
                => PoolBalance(g, f, i)

\* The bug of never taking the bal_pool branch.
NodeConstraints_NoPoolBalance(g, bal, f, v, i) ==
    IF i = Src THEN sum_vars(f, OutEdges(g, i)) = v
    ELSE IF i = Tgt THEN sum_vars(f, InEdges(g, i)) = v
    ELSE sum_vars(f, OutEdges(g, i)) - sum_vars(f, InEdges(g, i)) = 0

\* Lines 115-130: the constraint(s) the loop adds for node i.
NodeConstraints(g, bal, f, v, i) ==
    IF i = Src THEN sum_vars(f, OutEdges(g, i)) = v
    ELSE IF i = Tgt THEN sum_vars(f, InEdges(g, i)) = v
    ELSE /\ sum_vars(f, OutEdges(g, i)) - sum_vars(f, InEdges(g, i)) = 0
         /\ (bal /\ g.node[i].tag = "location" /\ i.k = "out")
                => PoolBalance(g, f, i)

\* The programme: the variables' bounds, v >= 0 (line 112), one constraint
\* block per node.
Feasible(g, bal, f, v) ==
    /\ VarBounds(g, f)
    /\ v >= 0
    /\ \A i \in Nodes(g) : NodeConstraints(g, bal, f, v, i)

\* ------------------------------------------------ the LP solver (line 134)
\* The solver is external.  It is modelled by what it is: it returns some
\* point of the programme that minimises v, or reports that there is none.
\* The programme is a network-flow programme with integral data, so its
\* minimum is attained at integral points, and the model lets the solver
\* return any integral minimiser.  The points it searches (IntegralFlows)
\* put 0 or 1 on every utilization edge, let every trailer node that touches
\* a used utilization edge pick one of its other edges (a TrailerStart an
\* incoming, a TrailerEnd an outgoing one), send one unit over every supply
\* edge picked, and over every return and reuse edge a TrailerEnd picked, and
\* give every pool edge what its location node passes on.  The constraints
\* the code states (Feasible) decide which of these points are solutions.

\* No edge of any graph: the pick of a node that picks nothing.
NoEdge == <<Tgt, Src>>

\* All functions p on D with p[x] \in opt[x].
RECURSIVE Choices(_, _)
Choices(opt, D) ==
    IF D = {} THEN {<< >>}
    ELSE LET x == CHOOSE y \in D : TRUE
         IN  UNION { {(x :> e) @@ p : e \in opt[x]} : p \in Choices(opt, D \ {x}) }

UtilizationEdges(g) == {e \in Edges(g) : g.edge[e] = "trailer_utilization"}

\* The flow of utilization flows u and picks p.
FlowOf(g, u, p) ==
    [e \in Edges(g) |->
        CASE g.edge[e] = "trl_supp"     -> IF p[e[2]] = e THEN 1 ELSE 0
          [] g.edge[e] = "trl_rtrn"     -> IF p[e[1]] = e THEN 1 ELSE 0
          [] g.edge[e] = "same_trailer" -> IF p[e[1]] = e THEN 1 ELSE 0
          [] g.edge[e] = "src_pool"     ->
                Cardinality({j \in trailer_start(g) : p[j] # NoEdge /\ p[j][1] = e[2]})
          [] g.edge[e] = "sink_pool"    ->
                Cardinality({i \in trailer_end(g) : p[i] # NoEdge /\ p[i][2] = e[1]})
          [] OTHER -> u[e]]

\* The edges a trailer node may pick under utilization flows u.
Picks(g, u, n) ==
    IF \A e \in UtilizationEdges(g) : (e[1] = n \/ e[2] = n) => u[e] = 0
    THEN {NoEdge}
    ELSE IF n \in trailer_start(g)
         THEN {e \in InEdges(g, n) : g.edge[e] # "trailer_utilization"}
         ELSE {e \in OutEdges(g, n) : g.edge[e] # "trailer_utilization"}

IntegralFlows(g) ==
    UNION { {FlowOf(g, u, p) :
                p \in Choices([n \in trailer_start(g) \cup trailer_end(g) |-> Picks(g, u, n)],
                             trailer_start(g) \cup trailer_end(g))}
            : u \in [UtilizationEdges(g) -> {0, 1}] }

\* The value of v the source constraint (lines 116-118) gives a flow.
FlowValue(g, f) == sum_vars(f, OutEdges(g, Src))

FeasibleFlows(g, bal) ==
    {f \in IntegralFlows(g) : Feasible(g, bal, f, FlowValue(g, f))}

\* mdl.minimize(v) and mdl.solve(): the flows the solver may return.
OptimalFlows(g, bal) ==
    LET F == FeasibleFlows(g, bal)
    IN  {f \in F : \A h \in F : FlowValue(g, f) <= FlowValue(g, h)}

\* ---------------------------------------------------------------- actions
Init ==
    /\ pc = "start"
    /\ bal_pool \in BOOLEAN
    /\ \E n \in 2..MaxStops :
         \E steps \in [2..n -> Steps], zips \in [1..n -> Zips], arvs \in [1..n -> Times] :
            /\ zips[1] = 1   \* zips are only compared for equality: name the first one 1
            /\ sched = SortedTable(n, steps, zips, arvs)
            /\ Len(read_driver_schedule(sched)) > 0
    /\ drv_sched = << >>
    /\ G = EmptyGraph
    /\ sol = << >>
    /\ obj = 0

\* solve_min_flow_prob calls build_network_graph (line 99), which reads the
\* legs (line 39) and either raises KeyError at line 82 or returns G.
Build ==
    /\ pc = "start"
    /\ drv_sched' = read_driver_schedule(sched)
    /\ LET g6 == GraphToReturnEdges(drv_sched')
       IN  IF TagKeyError(g6)
           THEN /\ pc' = "KeyError"
                /\ G' = G
           ELSE /\ pc' = "built"
                /\ G' = AddTrailerEdges(g6)
    /\ UNCHANGED <<bal_pool, sched, sol, obj>>

\* Lines 101-144: the programme is stated and solved.  Without a solution
\* the message of line 136 is printed and nothing is returned; with one, the
\* flows are read out, the graph is cleared and sol is returned.
Solve ==
    /\ pc = "built"
    /\ LET F == OptimalFlows(G, bal_pool)
       IN  IF F = {}
           THEN /\ pc' = "nosolution"
                /\ UNCHANGED <<G, sol, obj>>
           ELSE /\ \E f \in F :
                     /\ sol' = f
                     /\ obj' = FlowValue(G, f)
                /\ G' = EmptyGraph
                /\ pc' = "solved"
    /\ UNCHANGED <<bal_pool, sched, drv_sched>>

Next == Build \/ Solve

Spec == Init /\ [][Next]_vars

\* ------------------------------------------------------------ the claims
\* What the claims speak of, stated on the legs and on the returned flow.
Legs == 1..Len(drv_sched)
Origin(a) == drv_sched[a].Zip
Destination(a) == drv_sched[a].DestZip
ReadyTime(a) == drv_sched[a].ArvDTTM - preload_time
ReleaseTime(a) == drv_sched[a].NxtArvDTTM + drop_time
TrailerStart(a) == TrlNode(drv_sched[a].Route, drv_sched[a].Sequence, "start")
TrailerEnd(a) == TrlNode(drv_sched[a].Route, drv_sched[a].Sequence, "end")
LegLocations == {Origin(a) : a \in Legs} \cup {Destination(a) : a \in Legs}

UniqueKeys ==
    \A a, b \in Legs :
        (drv_sched[a].Route = drv_sched[b].Route
            /\ drv_sched[a].Sequence = drv_sched[b].Sequence) => a = b

\* The graph the solved programme was stated over (G itself is cleared at
\* line 143).
SolvedGraph == build_network_graph(drv_sched)

Returned == pc = "solved"

\* C1 (as claimed): for every ordered pair of legs (A, B) the built graph has
\* a Reuse edge TrailerEnd(A) -> TrailerStart(B) iff A.destination = B.origin
\* and A.release-time < B.ready-time.
C1_ReuseEdgeIff ==
    pc = "built" =>
        \A a, b \in Legs :
            (/\ <<TrailerEnd(a), TrailerStart(b)>> \in Edges(G)
             /\ G.edge[<<TrailerEnd(a), TrailerStart(b)>>] = "same_trailer")
            <=> (Destination(a) = Origin(b) /\ ReleaseTime(a) < ReadyTime(b))

\* C1 on legs with distinct (Route, Sequence) keys: the same statement.
C1_ReuseEdgeIff_UniqueKeys == UniqueKeys => C1_ReuseEdgeIff

\* The Reuse edges the claims' predicate allows between legs, and the
\* largest number of them that gives every leg at most one predecessor and
\* at most one successor.
LegReuse ==
    {ab \in Legs \X Legs :
        Destination(ab[1]) = Origin(ab[2]) /\ ReleaseTime(ab[1]) < ReadyTime(ab[2])}

OnePredOneSucc(M) ==
    \A x, y \in M : x # y => (x[1] # y[1] /\ x[2] # y[2])

MaxReuse ==
    LET sizes == {Cardinality(M) : M \in {X \in SUBSET LegReuse : OnePredOneSucc(X)}}
    IN  CHOOSE m \in sizes : \A k \in sizes : k <= m

\* Flow into and out of a node, and the three families of constraints, as
\* the claims state them.
Inflow(f, n) == sum_vars(f, {e \in DOMAIN f : e[2] = n})
Outflow(f, n) == sum_vars(f, {e \in DOMAIN f : e[1] = n})

Conserved(g, f) ==
    \A n \in Nodes(g) \ {Src, Tgt} : Inflow(f, n) = Outflow(f, n)

WithinCapacity(g, f) ==
    \A e \in Edges(g) :
        /\ f[e] >= 0
        /\ g.edge[e] = "trailer_utilization" => f[e] = 1

Balanced(g, f) ==
    \A loc \in LegLocations :
        f[<<Src, LocNode(loc, "out")>>] = f[<<LocNode(loc, "in"), Tgt>>]

\* C2 (as claimed): the returned v is the least Source outflow of any flow
\* that satisfies the constraints, and without bal_pool it equals the number
\* of legs minus the largest reuse set with one predecessor and one
\* successor per leg.
C2_MinimumTrailers ==
    Returned =>
        LET g == SolvedGraph
        IN  /\ \A f \in IntegralFlows(g) :
                  (Conserved(g, f) /\ WithinCapacity(g, f) /\ (bal_pool => Balanced(g, f)))
                      => obj <= Outflow(f, Src)
            /\ ~bal_pool => obj = Cardinality(Legs) - MaxReuse

\* C2 on legs with distinct (Route, Sequence) keys: the same statement.
C2_MinimumTrailers_UniqueKeys == UniqueKeys => C2_MinimumTrailers

\* C3: in every returned flow every leg has exactly one Utilization edge,
\* TrailerStart(leg) -> TrailerEnd(leg), it carries exactly 1, and no edge
\* carries a negative flow.
C3_UtilizationCarriesOne ==
    Returned =>
        LET g == SolvedGraph
        IN  /\ DOMAIN sol = Edges(g)
            /\ \A a \in Legs :
                  /\ {e \in UtilizationEdges(g) : e[1] = TrailerStart(a) \/ e[2] = TrailerEnd(a)}
                        = {<<TrailerStart(a), TrailerEnd(a)>>}
                  /\ sol[<<TrailerStart(a), TrailerEnd(a)>>] = 1
            /\ \A e \in DOMAIN sol : sol[e] >= 0

\* C3's case: a returned flow over two legs or more, one of them served by
\* a reused trailer.
C3_Witness ==
    /\ Returned
    /\ Cardinality({TrailerStart(a) : a \in Legs}) >= 2
    /\ \E e \in DOMAIN sol : SolvedGraph.edge[e] = "same_trailer" /\ sol[e] = 1

\* C4: in every returned flow inflow equals outflow at every node other
\* than Source and Sink, the flow leaving Source is v and the flow entering
\* Sink is v.
C4_Conservation ==
    Returned =>
        /\ \A n \in Nodes(SolvedGraph) \ {Src, Tgt} : Inflow(sol, n) = Outflow(sol, n)
        /\ Outflow(sol, Src) = obj
        /\ Inflow(sol, Tgt) = obj

\* C4's case: a returned flow with a reused trailer and two trailers drawn
\* from the pools.
C4_Witness ==
    /\ Returned
    /\ obj >= 2
    /\ \E e \in DOMAIN sol : SolvedGraph.edge[e] = "same_trailer" /\ sol[e] = 1

\* C5 (as claimed): every location that is the origin or the destination of
\* a leg has its LocationOut and LocationIn nodes, tagged as location nodes,
\* its SourceToPool edge and its PoolToSink edge in the graph that
\* build_network_graph has put together when it looks up the tags (line 82).
C5_EveryLocationHasPool ==
    pc \in {"built", "KeyError"} =>
        LET g == GraphToReturnEdges(drv_sched)
        IN  \A loc \in LegLocations :
              /\ LocNode(loc, "out") \in Nodes(g)
              /\ LocNode(loc, "in") \in Nodes(g)
              /\ g.node[LocNode(loc, "out")].tag = "location"
              /\ g.node[LocNode(loc, "in")].tag = "location"
              /\ <<Src, LocNode(loc, "out")>> \in Edges(g)
              /\ <<LocNode(loc, "in"), Tgt>> \in Edges(g)

\* Arrival times do not decrease along a route.
ValidTimestamps ==
    \A i \in 1..(Len(sched) - 1) :
        sched[i].Route = sched[i + 1].Route => sched[i].ArvDTTM <= sched[i + 1].ArvDTTM

\* C6 (as claimed): without bal_pool a well-formed leg set (distinct keys,
\* valid timestamps, at least one leg) never ends in a failure: the graph is
\* built and a flow is returned.
C6_NeverFailsWithoutBalPool ==
    (~bal_pool /\ pc # "start" /\ UniqueKeys /\ ValidTimestamps)
        => pc \notin {"KeyError", "nosolution"}

\* C7: with bal_pool every returned flow has, at every location, as much
\* flow on Source -> LocationOut as on LocationIn -> Sink; and solve reports
\* no solution, and returns no flow map, exactly when no flow satisfies
\* conservation, capacity and balance together.
C7_PoolBalance ==
    bal_pool =>
        /\ Returned => Balanced(SolvedGraph, sol)
        /\ pc = "nosolution" =>
              /\ sol = << >>
              /\ ~\E f \in IntegralFlows(G) :
                    Conserved(G, f) /\ WithinCapacity(G, f) /\ Balanced(G, f)
        /\ Returned =>
              \E f \in IntegralFlows(SolvedGraph) :
                  Conserved(SolvedGraph, f) /\ WithinCapacity(SolvedGraph, f)
                      /\ Balanced(SolvedGraph, f)

\* C7's cases: a balanced flow returned over two locations, both in use.
C7_Witness ==
    /\ bal_pool
    /\ Returned
    /\ \A loc \in Zips :
          /\ <<Src, LocNode(loc, "out")>> \in DOMAIN sol
          /\ sol[<<Src, LocNode(loc, "out")>>] >= 1

\* Supply and demand at a location: the legs that start there and the legs
\* that end there.
LegsFrom(loc) == Cardinality({a \in Legs : Origin(a) = loc})
LegsTo(loc) == Cardinality({a \in Legs : Destination(a) = loc})
Asymmetric == \E loc \in LegLocations : LegsFrom(loc) # LegsTo(loc)
EveryLocationBothWays ==
    \A loc \in LegLocations : LegsFrom(loc) >= 1 /\ LegsTo(loc) >= 1

\* C8 (as claimed): with bal_pool a leg set with asymmetric supply and demand
\* at a location, every location being an origin and a destination, is
\* solved: a balanced flow is returned.
C8_AsymmetricStillSolved ==
    (bal_pool /\ pc \in {"solved", "nosolution"} /\ UniqueKeys
        /\ Asymmetric /\ EveryLocationBothWays)
        => (Returned /\ Balanced(SolvedGraph, sol))

\* C8 (amended): with bal_pool, once the graph is built, a leg set with
\* distinct keys and asymmetric supply and demand at a location is never
\* solved: solve reports no solution and returns no flow map.
C8_AsymmetricNoSolution ==
    (bal_pool /\ pc \in {"solved", "nosolution"} /\ UniqueKeys /\ Asymmetric)
        => (pc = "nosolution" /\ sol = << >>)

\* C8's case: solve has ended on an asymmetric leg set with distinct keys
\* whose locations are all origins and destinations.
C8_Witness ==
    /\ bal_pool
    /\ pc = "nosolution"
    /\ UniqueKeys
    /\ Asymmetric
    /\ EveryLocationBothWays

\* C9 (as claimed): two legs with the same (Route, Sequence) make graph
\* construction fail: no graph is built and nothing is solved.
C9_DuplicateKeyRejected ==
    (pc # "start" /\ ~UniqueKeys) => pc \notin {"built", "solved", "nosolution"}

\* The least v of the programme over g.
MinimumValue(g, bal) ==
    LET vals == {FlowValue(g, f) : f \in FeasibleFlows(g, bal)}
    IN  CHOOSE m \in vals : \A k \in vals : m <= k

\* C10: when solve with bal_pool returns a flow, its v is the v solve
\* returns for the same legs without bal_pool.
C10_BalPoolKeepsCount ==
    (bal_pool /\ Returned) => obj = MinimumValue(SolvedGraph, FALSE)

\* C10 on legs with distinct (Route, Sequence) keys: the same statement.
C10_BalPoolKeepsCount_UniqueKeys == UniqueKeys => C10_BalPoolKeepsCount
=============================================================================
